---- MODULE Spec2Model ----
(***************************************************************************)
(* A model of the store subsystem of @graphql-mesh/store                   *)
(* (packages/store/src/index.ts): MeshStore, its per-key StoreProxy, the   *)
(* in-memory storage adapter, the predefined proxy options, and the        *)
(* module a string is written as and read from by the filesystem adapter.  *)
(*                                                                         *)
(* Strings (identifiers, keys) are sequences of one-character strings.     *)
(* Every async function is executed one synchronous segment at a time:     *)
(* a call owns a stack of the await expressions it is suspended at, the    *)
(* innermost last, and one action resumes the innermost one.               *)
(***************************************************************************)
EXTENDS Integers, Sequences, FiniteSets, TLC

(***************************************************************************)
(* Bounds of the model.                                                    *)
(***************************************************************************)
MaxStores == 2       \* store nodes of a run whose children override flags
MaxNamespaces == 3   \* store nodes of a run whose children inherit the flags
MaxProxies == 2      \* proxies created in a run
MaxChanges == 3      \* changes in a list given to the schema validation
MaxLen == 3          \* characters of a string written as a module
MaxCalls == 2        \* calls in flight at once on a proxy used concurrently

(***************************************************************************)
(* JavaScript values held by a store: undefined, numbers and GraphQL       *)
(* schemas (a schema is represented by the set of fields of its Query      *)
(* type).                                                                  *)
(***************************************************************************)
JsUndefined == [kind |-> "undefined", n |-> 0, fields |-> {}]
JsNumber(n) == [kind |-> "number", n |-> n, fields |-> {}]
JsSchema(F) == [kind |-> "schema", n |-> 0, fields |-> F]

FieldNames == {"f", "g"}
JsonValues == {JsUndefined, JsNumber(0), JsNumber(42)}
SchemaValues == {JsUndefined, JsSchema({"f"}), JsSchema({"f", "g"})}
Values == JsonValues \cup SchemaValues

\* JavaScript truthiness, as used by `value && newValue` and `!value`.
Truthy(v) ==
  CASE v.kind = "undefined" -> FALSE
    [] v.kind = "number" -> v.n # 0
    [] OTHER -> TRUE

(***************************************************************************)
(* path.join on identifiers without "." segments: the non-empty parts      *)
(* joined with "/", consecutive separators collapsed.                      *)
(***************************************************************************)
RECURSIVE normalize(_)
normalize(s) ==
  IF Len(s) < 2 THEN s
  ELSE IF s[1] = "/" /\ s[2] = "/" THEN normalize(Tail(s))
  ELSE <<s[1]>> \o normalize(Tail(s))

\* A join that keeps only the last part.
joinLast(a, b) == normalize(b)

join(a, b) ==
  IF a = <<>> THEN normalize(b)
  ELSE IF b = <<>> THEN normalize(a)
  ELSE normalize(a \o <<"/">> \o b)

RootIdentifier == <<"r">>
ChildIdentifiers == {<<"a">>, <<"b">>}
ProxyIds == {<<"k">>, <<"a", "/", "k">>}

(***************************************************************************)
(* StoreFlags and the Partial<StoreFlags> a child may be created with.     *)
(***************************************************************************)
FlagNames == {"readonly", "validate"}
StoreFlags == [FlagNames -> BOOLEAN]
PartialStoreFlags == UNION {[D -> BOOLEAN] : D \in SUBSET FlagNames}

\* { ...this.flags, ...flags }
MergeFlags(parent, overrides) ==
  [f \in FlagNames |-> IF f \in DOMAIN overrides THEN overrides[f] ELSE parent[f]]

(***************************************************************************)
(* Predefined proxy options.  diff is @graphql-inspector/core's diff on    *)
(* the schema representation: a removed field is a Breaking change, an     *)
(* added field a NonBreaking one; with an operand that is not a schema it  *)
(* throws.                                                                 *)
(***************************************************************************)
OptionNames == {"JsonWithoutValidation", "GraphQLSchemaWithDiffing"}

RECURSIVE SetToSeq(_)
SetToSeq(S) ==
  IF S = {} THEN <<>>
  ELSE LET x == CHOOSE y \in S : \A z \in S : y = "f" \/ z # "f"
       IN <<x>> \o SetToSeq(S \ {x})

diffThrows(oldSchema, newSchema) ==
  oldSchema.kind # "schema" \/ newSchema.kind # "schema"

diff(oldSchema, newSchema) ==
  LET removed == SetToSeq(oldSchema.fields \ newSchema.fields)
      added == SetToSeq(newSchema.fields \ oldSchema.fields)
  IN [i \in 1..Len(removed) |->
        [level |-> "BREAKING", message |-> <<"removed", removed[i]>>]]
     \o
     [i \in 1..Len(added) |->
        [level |-> "NON_BREAKING", message |-> <<"added", added[i]>>]]

\* CriticalityLevel and the changes diff may return.
CriticalityLevels == {"BREAKING", "DANGEROUS", "NON_BREAKING"}
ChangeMessages == {"m1", "m2"}
Changes == [level : CriticalityLevels, message : ChangeMessages]
ChangeLists == UNION {[1..n -> Changes] : n \in 0..MaxChanges}

\* A loop that stops at the first offending change.
CollectErrorsFailFast(changes) ==
  LET offending == SelectSeq(changes, LAMBDA change :
                     change.level = "BREAKING" \/ change.level = "DANGEROUS")
  IN IF offending = <<>> THEN <<>> ELSE <<offending[1].message>>

\* The loop of GraphQLSchemaWithDiffing.validate: the messages collected.
RECURSIVE CollectErrors(_)
CollectErrors(changes) ==
  IF changes = <<>> THEN <<>>
  ELSE LET change == Head(changes)
       IN (IF change.level = "BREAKING" \/ change.level = "DANGEROUS"
           THEN <<change.message>> ELSE <<>>)
          \o CollectErrors(Tail(changes))

GraphQLSchemaWithDiffingValidateThrows(oldSchema, newSchema) ==
  \/ diffThrows(oldSchema, newSchema)
  \/ Len(CollectErrors(diff(oldSchema, newSchema))) > 0

\* options.validate(oldValue, newValue, id) throws.
ValidateThrows(proxyOptions, oldValue, newValue) ==
  CASE proxyOptions = "JsonWithoutValidation" -> FALSE
    [] proxyOptions = "GraphQLSchemaWithDiffing" ->
         GraphQLSchemaWithDiffingValidateThrows(oldValue, newValue)

(***************************************************************************)
(* StringWithoutValidation.codify and the module it makes.  A string is a  *)
(* sequence of characters, each written by its name; the text of a module  *)
(* is the token "export default " followed by the characters of a template *)
(* literal.                                                                *)
(***************************************************************************)
Backtick == "BACKTICK"
Dollar == "DOLLAR"
LeftBrace == "LEFT_BRACE"
Backslash == "BACKSLASH"
LineFeed == "LINE_FEED"
Chars == {Backtick, Dollar, LeftBrace, Backslash, "n"}
Strings == UNION {[1..n -> Chars] : n \in 0..MaxLen}

\* str.split(separator).join(by)
RECURSIVE SplitJoin(_, _, _)
SplitJoin(str, separator, by) ==
  IF str = <<>> THEN <<>>
  ELSE (IF Head(str) = separator THEN by ELSE <<Head(str)>>)
       \o SplitJoin(Tail(str), separator, by)

\* str.split(backtick).join(backslash backtick)
\*    .split(dollar).join(backslash dollar)
escapeForTemplateLiteral(str) ==
  SplitJoin(SplitJoin(str, Backtick, <<Backslash, Backtick>>),
            Dollar, <<Backslash, Dollar>>)

\* StringWithoutValidation.codify
StringWithoutValidationCodify(v) ==
  <<"export default ", Backtick>> \o escapeForTemplateLiteral(v) \o <<Backtick>>

\* The character an escape sequence of a template literal stands for.
Unescape(c) == IF c = "n" THEN LineFeed ELSE c

\* The evaluation of the module text t that follows the opening backtick
\* of the exported template literal, acc being the value so far: the
\* value, or a throw (an unterminated literal, text after the literal, a
\* substitution whose expression does not evaluate).
RECURSIVE EvalTemplate(_, _)
EvalTemplate(t, acc) ==
  IF t = <<>> THEN [throws |-> TRUE, value |-> <<>>]
  ELSE IF t[1] = Backtick
       THEN [throws |-> Len(t) > 1, value |-> IF Len(t) > 1 THEN <<>> ELSE acc]
  ELSE IF t[1] = Backslash
       THEN IF Len(t) = 1 THEN [throws |-> TRUE, value |-> <<>>]
            ELSE EvalTemplate(SubSeq(t, 3, Len(t)), Append(acc, Unescape(t[2])))
  ELSE IF t[1] = Dollar /\ Len(t) > 1 /\ t[2] = LeftBrace
       THEN [throws |-> TRUE, value |-> <<>>]
  ELSE EvalTemplate(Tail(t), Append(acc, t[1]))

\* import(filePath): the default export of the module of the given text.
Import(text) ==
  IF Len(text) < 2 \/ text[1] # "export default " \/ text[2] # Backtick
  THEN [throws |-> TRUE, value |-> <<>>]
  ELSE EvalTemplate(SubSeq(text, 3, Len(text)), <<>>)

\* The values a caller passes to a proxy of the given options.
ValuesOf(proxyOptions) ==
  IF proxyOptions = "GraphQLSchemaWithDiffing" THEN SchemaValues ELSE JsonValues

(***************************************************************************)
(* State.                                                                  *)
(*   options  the ProxyOptions (and so the type of the values) the proxies *)
(*            of this run are created with                                 *)
(*   stores   the MeshStore nodes constructed so far, the root first:      *)
(*            identifier and flags (all share the one storage adapter)     *)
(*   data     the Map of the InMemoryStoreStorageAdapter                   *)
(*   proxies  the StoreProxy closures created so far: the store (`this`)   *)
(*            they were created on, id, path, options, and the closure     *)
(*            variables value and isValueCached                            *)
(*   calls    the calls of proxy methods whose promise the caller has not  *)
(*            yet observed, each with the stack of awaits it is            *)
(*            suspended at, the adapter/strategy invocations it made, the *)
(*            adapter operation that failed in it (failed), the old value *)
(*            it gave to validate (validated) and (pre) the               *)
(*            storage and the closure variables it started from           *)
(*   validation  a call of GraphQLSchemaWithDiffing.validate on its own:   *)
(*            the changes diff returned, and how the call ended            *)
(*   fs       a string value written by FsStoreStorageAdapter.write with   *)
(*            the StringWithoutValidation options and read back: the value,*)
(*            the text of the file, and what read returned                 *)
(***************************************************************************)
VARIABLES options, stores, data, proxies, calls, validation, fs

vars == <<options, stores, data, proxies, calls, validation, fs>>

NewCall(op, p, arg) ==
  [op |-> op, proxy |-> p, arg |-> arg, stack |-> <<>>,
   existed |-> FALSE, readValue |-> JsUndefined,
   exc |-> "none", failed |-> "none", result |-> JsUndefined,
   validated |-> JsUndefined,
   nExists |-> 0, nRead |-> 0, nWrite |-> 0, nDelete |-> 0,
   nValidate |-> 0, nCompute |-> 0,
   pre |-> [data |-> data, value |-> proxies[p].value,
            isValueCached |-> proxies[p].isValueCached]]

\* The part of the state one call works on: the adapter's data, the
\* closure variables value and isValueCached of its proxy, and the call.
Machine(i) ==
  [data |-> data,
   value |-> proxies[calls[i].proxy].value,
   isValueCached |-> proxies[calls[i].proxy].isValueCached,
   call |-> calls[i]]

Top(c) == IF c.stack = <<>> THEN "settled" ELSE c.stack[Len(c.stack)]
Push(m, frame) == [m EXCEPT !.call.stack = Append(@, frame)]
Pop(m) == [m EXCEPT !.call.stack = SubSeq(@, 1, Len(@) - 1)]
Replace(m, frame) == Push(Pop(m), frame)
\* `return value` of get and getWithSet.
ReturnValue(m) == [Pop(m) EXCEPT !.call.result = m.value]
Throw(m, error) == [m EXCEPT !.call.exc = error]

(***************************************************************************)
(* InMemoryStoreStorageAdapter.                                            *)
(***************************************************************************)
AdapterExists(d, key) == key \in DOMAIN d
AdapterRead(d, key) == IF key \in DOMAIN d THEN d[key] ELSE JsUndefined
AdapterWrite(d, key, v) == [k \in DOMAIN d \cup {key} |-> IF k = key THEN v ELSE d[k]]
AdapterDelete(d, key) == [k \in DOMAIN d \ {key} |-> d[k]]

(***************************************************************************)
(* The synchronous first segment of the async functions of a proxy px,     *)
(* up to their first await.                                                *)
(***************************************************************************)
\* ensureValueCached that loads whether or not the value is cached.
ensureValueCachedAlways(px, m) ==
  Push([m EXCEPT !.call.existed = AdapterExists(m.data, px.path),
                 !.call.nExists = @ + 1],
       "evc_exists")

\* ensureValueCached that joins the load of a call already loading.
ensureValueCachedShared(px, m) ==
  IF ~m.isValueCached
       /\ ~\E j \in DOMAIN calls :
             calls[j].proxy = m.call.proxy /\ calls[j].nExists > 0 /\ calls[j].stack # <<>>
  THEN Push([m EXCEPT !.call.existed = AdapterExists(m.data, px.path),
                      !.call.nExists = @ + 1],
            "evc_exists")
  ELSE m

\* ensureValueCached(): `if (!isValueCached) { if (await storage.exists(path))`
ensureValueCached(px, m) ==
  IF ~m.isValueCached
  THEN Push([m EXCEPT !.call.existed = AdapterExists(m.data, px.path),
                      !.call.nExists = @ + 1],
            "evc_exists")
  ELSE m

\* doValidation(newValue): `await ensureValueCached()`
doValidation(px, m) == ensureValueCached(px, Push(m, "dv_evc"))

\* A write-through that leaves the closure variables alone.
WriteOnly(px, m) ==
  Push([m EXCEPT !.data = AdapterWrite(m.data, px.path, m.call.arg),
                 !.call.nWrite = @ + 1],
       "set_write")

\* A set that caches the value and leaves the write for later.
AssignOnly(px, m) ==
  Push([m EXCEPT !.value = m.call.arg,
                 !.isValueCached = TRUE],
       "set_write")

\* `value = newValue; isValueCached = true; await storage.write(path, value)`
AssignAndWrite(px, m) ==
  Push([m EXCEPT !.value = m.call.arg,
                 !.isValueCached = TRUE,
                 !.data = AdapterWrite(m.data, px.path, m.call.arg),
                 !.call.nWrite = @ + 1],
       "set_write")

\* set without the read-only check.
setUnguarded(px, m) ==
  IF px.flags.validate THEN doValidation(px, Push(m, "set_dv"))
  ELSE AssignAndWrite(px, m)

\* set(newValue)
set(px, m) ==
  IF px.flags.readonly THEN Throw(m, "ReadonlyStoreError")
  ELSE IF px.flags.validate THEN doValidation(px, Push(m, "set_dv"))
  ELSE AssignAndWrite(px, m)

(***************************************************************************)
(* The segments that follow each await.  An await whose promise was        *)
(* rejected rethrows: the frame is left with the error pending.            *)
(***************************************************************************)
\* ensureValueCached after `await this.storage.exists(path)`
AfterExists(px, m) ==
  IF m.call.existed
  THEN Replace([m EXCEPT !.call.readValue = AdapterRead(m.data, px.path),
                         !.call.nRead = @ + 1,
                         !.call.existed = FALSE],
               "evc_read")
  ELSE Pop([m EXCEPT !.isValueCached = TRUE])

\* ensureValueCached after `await this.storage.read(path, options)`
AfterRead(px, m) ==
  Pop([m EXCEPT !.value = m.call.readValue,
                !.isValueCached = TRUE,
                !.call.readValue = JsUndefined])

\* doValidation that swallows what validate throws.
AfterDvEvcSwallow(px, m) ==
  IF Truthy(m.value) /\ Truthy(m.call.arg)
  THEN Replace([m EXCEPT !.call.nValidate = @ + 1,
                         !.call.validated = m.value], "dv_validate")
  ELSE Pop(m)

\* doValidation after `await ensureValueCached()`
AfterDvEvc(px, m) ==
  IF Truthy(m.value) /\ Truthy(m.call.arg)
  THEN LET invoked == [m EXCEPT !.call.nValidate = @ + 1,
                                !.call.validated = m.value]
       IN IF ValidateThrows(px.options, m.value, m.call.arg)
          THEN Pop(Throw(invoked, "ValidationError"))
          ELSE Replace(invoked, "dv_validate")
  ELSE Pop(m)

\* doValidation after `await options.validate(value, newValue, id)`
AfterDvValidate(px, m) == Pop(m)

\* A set that writes only if the value it validated against is still the
\* cached one.
AfterSetDvCompareAndSwap(px, m) ==
  IF m.call.nValidate > 0 /\ m.value # m.call.validated
  THEN Pop(Pop(Throw(m, "ConflictError")))
  ELSE AssignAndWrite(px, Pop(m))

\* set after `await doValidation(newValue)`
AfterSetDv(px, m) == AssignAndWrite(px, Pop(m))

\* set after `await this.storage.write(path, value, options)`
AfterSetWrite(px, m) == Pop(m)

\* get after `await ensureValueCached()`
AfterGetEvc(px, m) == ReturnValue(m)

\* getWithSet after `await ensureValueCached()`
AfterGwsEvc(px, m) ==
  IF px.flags.validate \/ ~Truthy(m.value)
  THEN Replace([m EXCEPT !.call.nCompute = @ + 1], "gws_compute")
  ELSE ReturnValue(m)

\* getWithSet that hands the candidate to set whatever the flags.
GwsPersistAlways(px, m) == set(px, Replace(m, "gws_set"))

\* getWithSet after `await setterFn()`, and the `if (!this.flags.readonly)`
\* that follows the validation of the readonly case
GwsPersist(px, m) ==
  IF ~px.flags.readonly
  THEN set(px, Replace(m, "gws_set"))
  ELSE ReturnValue(m)

\* getWithSet that never inspects: the candidate is persisted or dropped.
AfterGwsComputeNoInspect(px, m) == GwsPersist(px, m)

\* getWithSet that validates the candidate whenever validate is set.
AfterGwsComputeValidates(px, m) ==
  IF px.flags.validate
  THEN doValidation(px, Replace(m, "gws_dv"))
  ELSE GwsPersist(px, m)

AfterGwsCompute(px, m) ==
  IF px.flags.validate /\ px.flags.readonly
  THEN doValidation(px, Replace(m, "gws_dv"))
  ELSE GwsPersist(px, m)

\* getWithSet after `await doValidation(newValue)`
AfterGwsDv(px, m) == GwsPersist(px, m)

\* getWithSet after `await proxy.set(newValue)`
AfterGwsSet(px, m) == ReturnValue(m)

\* The segment that follows the await named by the frame.
Continue(frame, px, m) ==
  CASE frame = "evc_exists" -> AfterExists(px, m)
    [] frame = "evc_read" -> AfterRead(px, m)
    [] frame = "dv_evc" -> AfterDvEvc(px, m)
    [] frame = "dv_validate" -> AfterDvValidate(px, m)
    [] frame = "set_dv" -> AfterSetDv(px, m)
    [] frame = "set_write" -> AfterSetWrite(px, m)
    [] frame = "get_evc" -> AfterGetEvc(px, m)
    [] frame = "gws_evc" -> AfterGwsEvc(px, m)
    [] frame = "gws_compute" -> AfterGwsCompute(px, m)
    [] frame = "gws_dv" -> AfterGwsDv(px, m)
    [] frame = "gws_set" -> AfterGwsSet(px, m)
    [] frame = "delete" -> Pop(m)

\* The state after the machine of call i became m.
Commit(i, m) ==
  /\ data' = m.data
  /\ proxies' = [proxies EXCEPT ![m.call.proxy].value = m.value,
                                ![m.call.proxy].isValueCached = m.isValueCached]
  /\ calls' = [calls EXCEPT ![i] = m.call]
  /\ UNCHANGED <<options, stores, validation, fs>>

\* A new call, whose first segment made the machine m.
Begin(m) ==
  /\ data' = m.data
  /\ proxies' = [proxies EXCEPT ![m.call.proxy].value = m.value,
                                ![m.call.proxy].isValueCached = m.isValueCached]
  /\ calls' = Append(calls, m.call)
  /\ UNCHANGED <<options, stores, validation, fs>>

Fresh(op, p, arg) ==
  [data |-> data, value |-> proxies[p].value,
   isValueCached |-> proxies[p].isValueCached, call |-> NewCall(op, p, arg)]

\* What the closure of proxy p sees: its constants and `this.flags`.
Closure(p) ==
  [id |-> proxies[p].id, path |-> proxies[p].path,
   options |-> proxies[p].options, flags |-> stores[proxies[p].store].flags]

Settled(c) == c.stack = <<>>

(***************************************************************************)
(* Initial state: a root store with any flags over an empty adapter.       *)
(***************************************************************************)
NoValidation == [changes |-> <<>>, outcome |-> "none", errors |-> <<>>]

NoFile == [value |-> <<>>, written |-> FALSE, text |-> <<>>,
           outcome |-> "none", loaded |-> <<>>]

Init ==
  /\ validation = NoValidation
  /\ fs = NoFile
  /\ options \in OptionNames
  /\ \E flags \in StoreFlags :
       stores = <<[identifier |-> RootIdentifier, flags |-> flags]>>
  /\ data = <<>>
  /\ proxies = <<>>
  /\ calls = <<>>

(***************************************************************************)
(* MeshStore.child and MeshStore.proxy.                                    *)
(***************************************************************************)
child(s, childIdentifier, flags) ==
  [identifier |-> join(stores[s].identifier, childIdentifier),
   flags |-> MergeFlags(stores[s].flags, flags)]

\* A child that merges the overrides into the flags object of its parent.
ChildAssignsFlags(s, childIdentifier, flags) ==
  /\ stores' = Append([stores EXCEPT ![s].flags = MergeFlags(@, flags)],
                      child(s, childIdentifier, flags))
  /\ UNCHANGED <<options, data, proxies, calls, validation, fs>>

Child(s, childIdentifier, flags) ==
  /\ stores' = Append(stores, child(s, childIdentifier, flags))
  /\ UNCHANGED <<options, data, proxies, calls, validation, fs>>

\* A proxy whose path is the id alone, not joined to the store's identifier.
proxyUnqualified(s, id, proxyOptions) ==
  [store |-> s, id |-> id, path |-> id,
   options |-> proxyOptions, value |-> JsUndefined, isValueCached |-> FALSE]

proxy(s, id, proxyOptions) ==
  [store |-> s, id |-> id, path |-> join(stores[s].identifier, id),
   options |-> proxyOptions, value |-> JsUndefined, isValueCached |-> FALSE]

Proxy(s, id) ==
  /\ Len(proxies) < MaxProxies
  /\ proxies' = Append(proxies, proxy(s, id, options))
  /\ UNCHANGED <<options, stores, data, calls, validation, fs>>

(***************************************************************************)
(* Calls of the proxy methods: the first synchronous segment.              *)
(***************************************************************************)
StartGet(p) ==
  Begin(ensureValueCached(Closure(p), Push(Fresh("get", p, JsUndefined), "get_evc")))

StartSet(p, newValue) ==
  Begin(set(Closure(p), Fresh("set", p, newValue)))

\* newValue is what setterFn will return if it is invoked.
StartGetWithSet(p, newValue) ==
  Begin(ensureValueCached(Closure(p),
                          Push(Fresh("getWithSet", p, newValue), "gws_evc")))

\* A delete that also resets the closure variables.
StartDeleteResetsCache(p) ==
  LET m == Fresh("delete", p, JsUndefined)
  IN Begin(Push([m EXCEPT !.data = AdapterDelete(m.data, proxies[p].path),
                          !.value = JsUndefined,
                          !.isValueCached = FALSE,
                          !.call.nDelete = @ + 1],
                "delete"))

\* A delete that a read-only store rejects.
StartDeleteGuarded(p) ==
  LET m == Fresh("delete", p, JsUndefined)
  IN IF Closure(p).flags.readonly
     THEN Begin(Throw(m, "ReadonlyStoreError"))
     ELSE Begin(Push([m EXCEPT !.data = AdapterDelete(m.data, proxies[p].path),
                               !.call.nDelete = @ + 1],
                     "delete"))

\* delete: () => this.storage.delete(path)
StartDelete(p) ==
  LET m == Fresh("delete", p, JsUndefined)
  IN Begin(Push([m EXCEPT !.data = AdapterDelete(m.data, proxies[p].path),
                          !.call.nDelete = @ + 1],
                "delete"))

(***************************************************************************)
(* Resuming call i at the await it is suspended at.                        *)
(***************************************************************************)
\* A doValidation whose try block also encloses `await ensureValueCached()`.
ResumeWraps(i, frame) ==
  /\ i \in 1..Len(calls)
  /\ Top(calls[i]) = frame
  /\ Commit(i, IF calls[i].exc # "none"
               THEN IF frame = "dv_evc"
                    THEN Pop(Throw(Machine(i), "ValidationError"))
                    ELSE Pop(Machine(i))
               ELSE Continue(frame, Closure(calls[i].proxy), Machine(i)))

Resume(i, frame) ==
  /\ i \in 1..Len(calls)
  /\ Top(calls[i]) = frame
  /\ Commit(i, IF calls[i].exc # "none"
               THEN Pop(Machine(i))
               ELSE Continue(frame, Closure(calls[i].proxy), Machine(i)))

\* The caller observes the outcome of the settled call i.
Settle(i) ==
  /\ i \in 1..Len(calls)
  /\ Settled(calls[i])
  /\ calls' = [j \in 1..(Len(calls) - 1) |-> IF j < i THEN calls[j] ELSE calls[j + 1]]
  /\ UNCHANGED <<options, stores, data, proxies, validation, fs>>

(***************************************************************************)
(* Sequential use: a proxy method is called only when no call is pending.  *)
(***************************************************************************)
Idle == calls = <<>>

Get(p) == Idle /\ StartGet(p)
Set(p, v) == Idle /\ StartSet(p, v)
GetWithSet(p, v) == Idle /\ StartGetWithSet(p, v)
Delete(p) == Idle /\ StartDelete(p)

ResumeExists(i) == Resume(i, "evc_exists")
ResumeRead(i) == Resume(i, "evc_read")
ResumeDvEvc(i) == Resume(i, "dv_evc")
ResumeDvValidate(i) == Resume(i, "dv_validate")
ResumeSetDv(i) == Resume(i, "set_dv")
ResumeSetWrite(i) == Resume(i, "set_write")
ResumeGetEvc(i) == Resume(i, "get_evc")
ResumeGwsEvc(i) == Resume(i, "gws_evc")
ResumeGwsCompute(i) == Resume(i, "gws_compute")
ResumeGwsDv(i) == Resume(i, "gws_dv")
ResumeGwsSet(i) == Resume(i, "gws_set")
ResumeDelete(i) == Resume(i, "delete")

\* The proxy methods and the steps of the pending calls.
Use ==
  \/ \E s \in 1..Len(stores), id \in ProxyIds : Proxy(s, id)
  \/ \E p \in 1..Len(proxies) : Get(p)
  \/ \E p \in 1..Len(proxies) : \E v \in ValuesOf(proxies[p].options) : Set(p, v)
  \/ \E p \in 1..Len(proxies) : \E v \in ValuesOf(proxies[p].options) : GetWithSet(p, v)
  \/ \E p \in 1..Len(proxies) : Delete(p)
  \/ \E i \in 1..Len(calls) : ResumeExists(i)
  \/ \E i \in 1..Len(calls) : ResumeRead(i)
  \/ \E i \in 1..Len(calls) : ResumeDvEvc(i)
  \/ \E i \in 1..Len(calls) : ResumeDvValidate(i)
  \/ \E i \in 1..Len(calls) : ResumeSetDv(i)
  \/ \E i \in 1..Len(calls) : ResumeSetWrite(i)
  \/ \E i \in 1..Len(calls) : ResumeGetEvc(i)
  \/ \E i \in 1..Len(calls) : ResumeGwsEvc(i)
  \/ \E i \in 1..Len(calls) : ResumeGwsCompute(i)
  \/ \E i \in 1..Len(calls) : ResumeGwsDv(i)
  \/ \E i \in 1..Len(calls) : ResumeGwsSet(i)
  \/ \E i \in 1..Len(calls) : ResumeDelete(i)
  \/ \E i \in 1..Len(calls) : Settle(i)

\* Stores of any flags: child(childIdentifier, flags) with any overrides.
Next ==
  \/ \E s \in 1..Len(stores), f \in PartialStoreFlags :
       Len(stores) < MaxStores /\ Child(s, <<"a">>, f)
  \/ Use

Spec == Init /\ [][Next]_vars

\* Namespaces: store.child(childIdentifier) on the root, the flags inherited.
NoOverrides == <<>>

NextNs ==
  \/ \E c \in ChildIdentifiers :
       Len(stores) < MaxNamespaces /\ Child(1, c, NoOverrides)
  \/ Use

SpecNs == Init /\ [][NextNs]_vars

(***************************************************************************)
(* Concurrent use of one proxy of the root store: its methods are called   *)
(* while other calls are suspended at their awaits, and the pending calls  *)
(* are resumed in any order.                                               *)
(***************************************************************************)
\* A root store over an adapter that may hold an entry for the key k from
\* an earlier use.
InitStored ==
  /\ validation = NoValidation
  /\ fs = NoFile
  /\ options \in OptionNames
  /\ \E flags \in StoreFlags :
       stores = <<[identifier |-> RootIdentifier, flags |-> flags]>>
  /\ \/ data = <<>>
     \/ \E v \in ValuesOf(options) \ {JsUndefined} :
          data = AdapterWrite(<<>>, join(RootIdentifier, <<"k">>), v)
  /\ proxies = <<>>
  /\ calls = <<>>

ConcurrentGet(p) == Len(calls) < MaxCalls /\ StartGet(p)
ConcurrentSet(p, v) == Len(calls) < MaxCalls /\ StartSet(p, v)
ConcurrentGetWithSet(p, v) == Len(calls) < MaxCalls /\ StartGetWithSet(p, v)
ConcurrentDelete(p) == Len(calls) < MaxCalls /\ StartDelete(p)

NextConcurrent ==
  \/ proxies = <<>> /\ Proxy(1, <<"k">>)
  \/ \E p \in 1..Len(proxies) : ConcurrentGet(p)
  \/ \E p \in 1..Len(proxies) : \E v \in ValuesOf(proxies[p].options) :
       ConcurrentSet(p, v)
  \/ \E p \in 1..Len(proxies) : \E v \in ValuesOf(proxies[p].options) :
       ConcurrentGetWithSet(p, v)
  \/ \E p \in 1..Len(proxies) : ConcurrentDelete(p)
  \/ \E i \in 1..Len(calls) : ResumeExists(i)
  \/ \E i \in 1..Len(calls) : ResumeRead(i)
  \/ \E i \in 1..Len(calls) : ResumeDvEvc(i)
  \/ \E i \in 1..Len(calls) : ResumeDvValidate(i)
  \/ \E i \in 1..Len(calls) : ResumeSetDv(i)
  \/ \E i \in 1..Len(calls) : ResumeSetWrite(i)
  \/ \E i \in 1..Len(calls) : ResumeGetEvc(i)
  \/ \E i \in 1..Len(calls) : ResumeGwsEvc(i)
  \/ \E i \in 1..Len(calls) : ResumeGwsCompute(i)
  \/ \E i \in 1..Len(calls) : ResumeGwsDv(i)
  \/ \E i \in 1..Len(calls) : ResumeGwsSet(i)
  \/ \E i \in 1..Len(calls) : ResumeDelete(i)
  \/ \E i \in 1..Len(calls) : Settle(i)

SpecConcurrent == InitStored /\ [][NextConcurrent]_vars

(***************************************************************************)
(* Sequential use of the one proxy there is for a key: no other proxy and  *)
(* no delete touches the key.                                              *)
(***************************************************************************)
NextSole ==
  \/ proxies = <<>> /\ Proxy(1, <<"k">>)
  \/ \E p \in 1..Len(proxies) : Get(p)
  \/ \E p \in 1..Len(proxies) : \E v \in ValuesOf(proxies[p].options) : Set(p, v)
  \/ \E p \in 1..Len(proxies) : \E v \in ValuesOf(proxies[p].options) : GetWithSet(p, v)
  \/ \E i \in 1..Len(calls) : ResumeExists(i)
  \/ \E i \in 1..Len(calls) : ResumeRead(i)
  \/ \E i \in 1..Len(calls) : ResumeDvEvc(i)
  \/ \E i \in 1..Len(calls) : ResumeDvValidate(i)
  \/ \E i \in 1..Len(calls) : ResumeSetDv(i)
  \/ \E i \in 1..Len(calls) : ResumeSetWrite(i)
  \/ \E i \in 1..Len(calls) : ResumeGetEvc(i)
  \/ \E i \in 1..Len(calls) : ResumeGwsEvc(i)
  \/ \E i \in 1..Len(calls) : ResumeGwsCompute(i)
  \/ \E i \in 1..Len(calls) : ResumeGwsDv(i)
  \/ \E i \in 1..Len(calls) : ResumeGwsSet(i)
  \/ \E i \in 1..Len(calls) : Settle(i)

SpecSole == InitStored /\ [][NextSole]_vars

(***************************************************************************)
(* A storage adapter whose promises may be rejected (the filesystem        *)
(* adapter: a failed import, a failed writeFile): the await of call i on   *)
(* the adapter operation throws the adapter's error.  A write that fails   *)
(* has replaced the entry or has left it as it was.                        *)
(***************************************************************************)
Reject(i, frame, operation, d) ==
  /\ i \in 1..Len(calls)
  /\ Top(calls[i]) = frame
  /\ calls[i].exc = "none"
  /\ Commit(i, Pop(Throw([Machine(i) EXCEPT !.data = d,
                                            !.call.failed = operation],
                         "AdapterError")))

RejectExists(i) == Reject(i, "evc_exists", "exists", data)
RejectRead(i) == Reject(i, "evc_read", "read", data)
RejectWrite(i) ==
  \E written \in BOOLEAN :
    LET key == proxies[calls[i].proxy].path
        before == calls[i].pre.data
    IN Reject(i, "set_write", "write",
              IF written THEN data
              ELSE IF key \in DOMAIN before
                   THEN AdapterWrite(data, key, before[key])
                   ELSE AdapterDelete(data, key))

\* One store over an adapter that may fail.
NextFail ==
  \/ Use
  \/ \E i \in 1..Len(calls) : RejectExists(i)
  \/ \E i \in 1..Len(calls) : RejectRead(i)
  \/ \E i \in 1..Len(calls) : RejectWrite(i)

SpecFail == Init /\ [][NextFail]_vars

(***************************************************************************)
(* GraphQLSchemaWithDiffing.validate on its own, on any list of changes    *)
(* that diff may return: `if (errors.length) throw new                     *)
(* AggregateError(errors)`.                                                *)
(***************************************************************************)
InitDiffing ==
  /\ options = "GraphQLSchemaWithDiffing"
  /\ stores = <<>> /\ data = <<>> /\ proxies = <<>> /\ calls = <<>>
  /\ fs = NoFile
  /\ \E changes \in ChangeLists :
       validation = [changes |-> changes, outcome |-> "called", errors |-> <<>>]

GraphQLSchemaWithDiffingValidate ==
  /\ validation.outcome = "called"
  /\ LET errors == CollectErrors(validation.changes)
     IN validation' = [validation EXCEPT
                         !.outcome = IF Len(errors) > 0 THEN "thrown" ELSE "returned",
                         !.errors = errors]
  /\ UNCHANGED <<options, stores, data, proxies, calls, fs>>

NextDiffing == GraphQLSchemaWithDiffingValidate

SpecDiffing == InitDiffing /\ [][NextDiffing]_vars

(***************************************************************************)
(* FsStoreStorageAdapter with the StringWithoutValidation options: a write *)
(* of any string, then the read of a fresh proxy.  flatString returns the  *)
(* string it is given.                                                     *)
(***************************************************************************)
InitFs ==
  /\ options = "JsonWithoutValidation"
  /\ stores = <<>> /\ data = <<>> /\ proxies = <<>> /\ calls = <<>>
  /\ validation = NoValidation
  /\ \E v \in Strings : fs = [NoFile EXCEPT !.value = v]

\* write: `writeFile(filePath, flatString(options.codify(data, key)))`
FsWrite ==
  /\ ~fs.written
  /\ fs' = [fs EXCEPT !.written = TRUE,
                      !.text = StringWithoutValidationCodify(fs.value)]
  /\ UNCHANGED <<options, stores, data, proxies, calls, validation>>

\* read: `import(filePath).then(m => m.default || m)`
FsRead ==
  /\ fs.written /\ fs.outcome = "none"
  /\ LET m == Import(fs.text)
     IN fs' = [fs EXCEPT
                 !.outcome = IF m.throws THEN "throws"
                             ELSE IF m.value = <<>> THEN "module" ELSE "value",
                 !.loaded = m.value]
  /\ UNCHANGED <<options, stores, data, proxies, calls, validation>>

NextFs == FsWrite \/ FsRead

SpecFs == InitFs /\ [][NextFs]_vars

(***************************************************************************)
(* Vocabulary of the properties.                                           *)
(***************************************************************************)
PathOf(c) == proxies[c.proxy].path
FlagsOf(c) == stores[proxies[c.proxy].store].flags
Present(v) == v # JsUndefined
\* The closure variables of the proxy of call c are as when c started.
SlotUntouched(c) ==
  /\ proxies[c.proxy].value = c.pre.value
  /\ proxies[c.proxy].isValueCached = c.pre.isValueCached
\* The value call c finds for its key: the cached one, else the stored one.
OldValue(c) ==
  IF c.pre.isValueCached THEN c.pre.value ELSE AdapterRead(c.pre.data, PathOf(c))
Failed(c, error) == Settled(c) /\ c.exc = error
Succeeded(c) == Settled(c) /\ c.exc = "none"

(***************************************************************************)
(* C1  Read-only enforcement: set on a proxy of a store whose readonly     *)
(* flag is true fails with ReadonlyStoreError, whatever the validate flag, *)
(* the cache state and the value; the adapter's write is not invoked, and  *)
(* the storage and the proxy's cache slot are as they were before the call.*)
(***************************************************************************)
C1_ReadonlySetRejected ==
  \A i \in DOMAIN calls :
    LET c == calls[i]
    IN (c.op = "set" /\ FlagsOf(c).readonly) =>
         /\ Failed(c, "ReadonlyStoreError")
         /\ c.nWrite = 0
         /\ data = c.pre.data
         /\ SlotUntouched(c)

\* A rejected set of a new truthy value on a cached proxy whose key is stored,
\* on a read-only store that validates.
C1_Witness ==
  \E i \in DOMAIN calls :
    LET c == calls[i]
    IN /\ c.op = "set" /\ FlagsOf(c).readonly /\ FlagsOf(c).validate
       /\ Failed(c, "ReadonlyStoreError")
       /\ c.pre.isValueCached /\ Truthy(c.pre.value)
       /\ PathOf(c) \in DOMAIN data
       /\ Truthy(c.arg) /\ c.arg # c.pre.value

(***************************************************************************)
(* C2  On a store with validate=true and readonly=false, a set whose old   *)
(* value (cached, else stored) and new value are both present and whose    *)
(* pair the strategy's validate rejects fails with ValidationError: write  *)
(* is not invoked, the storage is unchanged, the slot holds the old value, *)
(* and a get on a cached proxy of such a store returns the cached value.   *)
(***************************************************************************)
C2_ValidationFailureAbortsSet ==
  \A i \in DOMAIN calls :
    LET c == calls[i]
        px == proxies[c.proxy]
    IN (FlagsOf(c).validate /\ ~FlagsOf(c).readonly) =>
         /\ ( /\ c.op = "set"
              /\ Present(OldValue(c)) /\ Present(c.arg)
              /\ ValidateThrows(px.options, OldValue(c), c.arg) ) =>
               /\ c.nWrite = 0
               /\ data = c.pre.data
               /\ Settled(c) =>
                    /\ c.exc = "ValidationError"
                    /\ px.isValueCached /\ px.value = OldValue(c)
         /\ (c.op = "get" /\ c.pre.isValueCached /\ Settled(c)) =>
               (c.exc = "none" /\ c.result = c.pre.value)

\* A set rejected by validation on a proxy that had to load the old value.
C2_Witness ==
  \E i \in DOMAIN calls :
    LET c == calls[i]
    IN /\ c.op = "set" /\ FlagsOf(c).validate /\ ~FlagsOf(c).readonly
       /\ ~c.pre.isValueCached
       /\ Failed(c, "ValidationError")
       /\ c.nValidate = 1
       /\ data[PathOf(c)] = OldValue(c) /\ c.arg # OldValue(c)

(***************************************************************************)
(* C3  Inspect without mutate: on a store with readonly=true and           *)
(* validate=true, getWithSet invokes neither write nor delete and leaves   *)
(* the storage as it was; when the existing value and the candidate are    *)
(* present and validate rejects the pair, it fails with ValidationError,   *)
(* not with ReadonlyStoreError.                                            *)
(***************************************************************************)
C3_InspectWithoutMutate ==
  \A i \in DOMAIN calls :
    LET c == calls[i]
    IN (c.op = "getWithSet" /\ FlagsOf(c).readonly /\ FlagsOf(c).validate) =>
         /\ c.nWrite = 0 /\ c.nDelete = 0
         /\ data = c.pre.data
         /\ c.exc # "ReadonlyStoreError"
         /\ ( /\ Settled(c)
              /\ Present(OldValue(c)) /\ Present(c.arg)
              /\ ValidateThrows(proxies[c.proxy].options, OldValue(c), c.arg) ) =>
               c.exc = "ValidationError"

\* An inspection that rejected the candidate, the key being stored.
C3_Witness ==
  \E i \in DOMAIN calls :
    LET c == calls[i]
    IN /\ c.op = "getWithSet" /\ FlagsOf(c).readonly /\ FlagsOf(c).validate
       /\ Failed(c, "ValidationError")
       /\ c.nCompute = 1 /\ c.nValidate = 1
       /\ PathOf(c) \in DOMAIN data /\ data[PathOf(c)] # c.arg

(***************************************************************************)
(* C4  Round trip: on a writable store that does not validate, set(v)      *)
(* caches v and writes it through without invoking exists or read; from    *)
(* then on the cached value changes only by the assignment of a set on     *)
(* that proxy, and a get on the cached proxy returns the cached value      *)
(* without invoking exists or read.                                        *)
(***************************************************************************)
C4_Post ==
  \A i \in DOMAIN calls :
    LET c == calls[i]
        px == proxies[c.proxy]
    IN (~FlagsOf(c).readonly /\ ~FlagsOf(c).validate) =>
         /\ c.op = "set" =>
              /\ c.nExists = 0 /\ c.nRead = 0 /\ c.nWrite = 1
              /\ c.exc = "none"
              /\ px.isValueCached /\ px.value = c.arg
              /\ data[px.path] = c.arg
         /\ (c.op = "get" /\ c.pre.isValueCached) =>
              /\ c.nExists = 0 /\ c.nRead = 0
              /\ Settled(c) => (c.exc = "none" /\ c.result = c.pre.value)

C4_SlotStable ==
  \A p \in DOMAIN proxies :
    ( /\ ~stores[proxies[p].store].flags.readonly
      /\ ~stores[proxies[p].store].flags.validate
      /\ proxies[p].isValueCached
      /\ proxies'[p].value # proxies[p].value ) =>
        \E i \in DOMAIN calls' :
          /\ calls'[i].proxy = p
          /\ calls'[i].nWrite = 1
          /\ i \in DOMAIN calls => calls[i].nWrite = 0
          /\ proxies'[p].value = calls'[i].arg

C4_SetThenGet == [][C4_Post' /\ C4_SlotStable]_vars

\* A get that returned the value set before although the storage no longer
\* holds it.
C4_Witness ==
  \E i \in DOMAIN calls :
    LET c == calls[i]
    IN /\ c.op = "get" /\ ~FlagsOf(c).readonly /\ ~FlagsOf(c).validate
       /\ Succeeded(c) /\ c.pre.isValueCached
       /\ Truthy(c.result)
       /\ AdapterRead(data, PathOf(c)) # c.result

(***************************************************************************)
(* C5  Load at most once, calls not interleaved: a get on a proxy that is  *)
(* not cached invokes exists once and read once if the key existed, never  *)
(* otherwise, and leaves the proxy cached; a get, set or getWithSet on a   *)
(* cached proxy invokes neither exists nor read, whatever the flags and    *)
(* whatever the storage holds by then; isValueCached never goes back from  *)
(* true to false.                                                          *)
(***************************************************************************)
C5_Post ==
  \A i \in DOMAIN calls :
    LET c == calls[i]
    IN /\ (c.op \in {"get", "set", "getWithSet"} /\ c.pre.isValueCached) =>
            (c.nExists = 0 /\ c.nRead = 0)
       /\ (c.op = "get" /\ ~c.pre.isValueCached) =>
            /\ c.nExists = 1
            /\ c.nRead = 1 => PathOf(c) \in DOMAIN c.pre.data
            /\ Settled(c) =>
                 /\ c.nRead = (IF PathOf(c) \in DOMAIN c.pre.data THEN 1 ELSE 0)
                 /\ proxies[c.proxy].isValueCached

C5_Monotone ==
  \A p \in DOMAIN proxies : proxies[p].isValueCached => proxies'[p].isValueCached

C5_LoadAtMostOnce == [][C5_Post' /\ C5_Monotone]_vars

\* A set on a validating store through a cached proxy whose storage entry
\* was changed meanwhile: validated against the cached value, nothing read.
C5_Witness ==
  \E i \in DOMAIN calls :
    LET c == calls[i]
    IN /\ c.op = "set" /\ FlagsOf(c).validate
       /\ c.pre.isValueCached
       /\ PathOf(c) \in DOMAIN c.pre.data
       /\ c.pre.data[PathOf(c)] # c.pre.value
       /\ Settled(c) /\ c.nValidate = 1 /\ c.nExists = 0

(***************************************************************************)
(* C6  getWithSet invokes compute if and only if the validate flag is set  *)
(* or no value exists for the key after the cache load; on a store that    *)
(* does not validate, with a value present for the key (falsy ones such as *)
(* 0 included), it neither invokes compute nor writes and returns the      *)
(* existing value.                                                         *)
(***************************************************************************)
C6_ComputeIffNoValue ==
  \A i \in DOMAIN calls :
    LET c == calls[i]
    IN (c.op = "getWithSet" /\ Settled(c)) =>
         /\ c.nCompute = 1 <=> (FlagsOf(c).validate \/ ~Present(OldValue(c)))
         /\ (~FlagsOf(c).validate /\ Present(OldValue(c))) =>
              (c.nCompute = 0 /\ c.nWrite = 0 /\ c.result = OldValue(c))

(***************************************************************************)
(* C7  Namespacing: the proxies for key k of child("a") and of child("b")  *)
(* of one store have different storage keys, and a set through one leaves  *)
(* the entry of the other as it was; the root's proxy for "a/k" and the    *)
(* proxy for "k" of child("a") have the same storage key, and a set        *)
(* through one makes the entry of the other the value set; the get of a    *)
(* proxy that has not loaded yet returns what is stored under its key.     *)
(***************************************************************************)
KeyK == <<"k">>
KeyAK == <<"a", "/", "k">>
\* Proxy p was obtained as store.child(c).proxy(id) on the root store.
ViaChild(p, c, id) ==
  /\ proxies[p].id = id
  /\ stores[proxies[p].store].identifier = join(RootIdentifier, c)
\* Proxy p was obtained as store.proxy(id) on the root store.
ViaRoot(p, id) == proxies[p].id = id /\ proxies[p].store = 1
Entry(d, key) == <<key \in DOMAIN d, AdapterRead(d, key)>>

C7_Namespacing ==
  /\ \A p, q \in DOMAIN proxies :
       /\ (ViaChild(p, <<"a">>, KeyK) /\ ViaChild(q, <<"b">>, KeyK)) =>
            proxies[p].path # proxies[q].path
       /\ (ViaRoot(p, KeyAK) /\ ViaChild(q, <<"a">>, KeyK)) =>
            proxies[p].path = proxies[q].path
  /\ \A i \in DOMAIN calls : \A q \in DOMAIN proxies :
       LET c == calls[i]
           p == c.proxy
       IN /\ (c.op = "set" /\ Succeeded(c)) =>
               /\ ( \/ ViaChild(p, <<"a">>, KeyK) /\ ViaChild(q, <<"b">>, KeyK)
                    \/ ViaChild(p, <<"b">>, KeyK) /\ ViaChild(q, <<"a">>, KeyK) ) =>
                      Entry(data, proxies[q].path) = Entry(c.pre.data, proxies[q].path)
               /\ ( \/ ViaRoot(p, KeyAK) /\ ViaChild(q, <<"a">>, KeyK)
                    \/ ViaChild(p, <<"a">>, KeyK) /\ ViaRoot(q, KeyAK) ) =>
                      Entry(data, proxies[q].path) = <<TRUE, c.arg>>
          /\ (c.op = "get" /\ Succeeded(c) /\ ~c.pre.isValueCached) =>
               c.result = AdapterRead(c.pre.data, PathOf(c))

\* The proxy of child("b") loads nothing although the proxy of child("a")
\* has set a value for the same id.
C7_Witness ==
  \E i \in DOMAIN calls : \E p \in DOMAIN proxies :
    LET c == calls[i]
    IN /\ c.op = "get" /\ Succeeded(c) /\ ~c.pre.isValueCached
       /\ ViaChild(c.proxy, <<"b">>, KeyK)
       /\ ViaChild(p, <<"a">>, KeyK)
       /\ proxies[p].isValueCached /\ Truthy(proxies[p].value)
       /\ Entry(data, proxies[p].path) = <<TRUE, proxies[p].value>>
       /\ c.result = JsUndefined

(***************************************************************************)
(* C8 (as stated)  After set(42) through the root store's proxy for key x  *)
(* (root flags readonly=false, validate=false, JSON strategy), for a child *)
(* of the root with the override {readonly:true}: set on the child's proxy *)
(* for key x fails with ReadonlyStoreError and get on it returns 42.       *)
(* The key x of the scenario is the id k of the model.                     *)
(***************************************************************************)
IsChildOfRoot(s) ==
  \E ci \in ChildIdentifiers : stores[s].identifier = join(RootIdentifier, ci)
RootWritableJson ==
  /\ ~stores[1].flags.readonly /\ ~stores[1].flags.validate
  /\ options = "JsonWithoutValidation"
\* Before call c, 42 was set through proxy p: cached in p and stored.
SetThrough(p, c) ==
  /\ proxies[p].isValueCached /\ proxies[p].value = JsNumber(42)
  /\ Entry(c.pre.data, proxies[p].path) = <<TRUE, JsNumber(42)>>

C8_ChildOfRootSeesRootKey ==
  \A i \in DOMAIN calls : \A p \in DOMAIN proxies :
    LET c == calls[i]
        s == proxies[c.proxy].store
    IN ( /\ RootWritableJson
         /\ ViaRoot(p, KeyK) /\ SetThrough(p, c)
         /\ IsChildOfRoot(s) /\ stores[s].flags.readonly
         /\ proxies[c.proxy].id = KeyK /\ ~c.pre.isValueCached ) =>
           /\ c.op = "set" => Failed(c, "ReadonlyStoreError")
           /\ (c.op = "get" /\ Settled(c)) => c.result = JsNumber(42)

(***************************************************************************)
(* C8 (amended)  After set(42) through the root store's proxy for key a/x  *)
(* (root flags readonly=false, validate=false, JSON strategy), for the     *)
(* child "a" of the root with the override {readonly:true}: set on the     *)
(* child's proxy for key x fails with ReadonlyStoreError, and get on a     *)
(* proxy of the child for key x that has not loaded yet returns 42.        *)
(***************************************************************************)
C8_ChildSeesItsNamespace ==
  \A i \in DOMAIN calls : \A p \in DOMAIN proxies :
    LET c == calls[i]
        s == proxies[c.proxy].store
    IN ( /\ RootWritableJson
         /\ ViaRoot(p, KeyAK) /\ SetThrough(p, c)
         /\ stores[s].identifier = join(RootIdentifier, <<"a">>)
         /\ stores[s].flags.readonly
         /\ proxies[c.proxy].id = KeyK /\ ~c.pre.isValueCached ) =>
           /\ c.op = "set" => Failed(c, "ReadonlyStoreError")
           /\ (c.op = "get" /\ Settled(c)) => c.result = JsNumber(42)

\* The get of the read-only child's proxy has returned the 42 of the root.
C8_Witness ==
  \E i \in DOMAIN calls : \E p \in DOMAIN proxies :
    LET c == calls[i]
        s == proxies[c.proxy].store
    IN /\ RootWritableJson
       /\ ViaRoot(p, KeyAK) /\ SetThrough(p, c)
       /\ stores[s].identifier = join(RootIdentifier, <<"a">>)
       /\ stores[s].flags.readonly
       /\ proxies[c.proxy].id = KeyK /\ ~c.pre.isValueCached
       /\ c.op = "get" /\ Succeeded(c) /\ c.result = JsNumber(42)

(***************************************************************************)
(* C9  delete removes the storage entry and leaves the proxy's cache slot  *)
(* alone: after it a get on the cached proxy still returns the cached      *)
(* value without a storage call, although the key no longer exists and the *)
(* get of a proxy that has not loaded yet returns undefined.               *)
(***************************************************************************)
C9_DeleteKeepsCache ==
  \A i \in DOMAIN calls :
    LET c == calls[i]
    IN /\ c.op = "delete" =>
            /\ c.nDelete = 1 /\ c.exc = "none"
            /\ ~AdapterExists(data, PathOf(c))
            /\ data = AdapterDelete(c.pre.data, PathOf(c))
            /\ SlotUntouched(c)
       /\ (c.op = "get" /\ c.pre.isValueCached) =>
            /\ c.nExists = 0 /\ c.nRead = 0 /\ c.nWrite = 0 /\ c.nDelete = 0
            /\ Settled(c) => (c.exc = "none" /\ c.result = c.pre.value)
       /\ (c.op = "get" /\ ~c.pre.isValueCached /\ Settled(c)
             /\ ~AdapterExists(c.pre.data, PathOf(c))) =>
            (c.exc = "none" /\ c.result = JsUndefined)

\* After a delete, the cached proxy still returns its value while another
\* proxy of the same key has loaded nothing.
C9_Witness ==
  \E i \in DOMAIN calls : \E q \in DOMAIN proxies :
    LET c == calls[i]
    IN /\ c.op = "get" /\ Succeeded(c) /\ c.pre.isValueCached
       /\ Truthy(c.result) /\ c.nExists = 0
       /\ ~AdapterExists(data, PathOf(c))
       /\ q # c.proxy /\ proxies[q].path = PathOf(c)
       /\ proxies[q].isValueCached /\ proxies[q].value = JsUndefined

(***************************************************************************)
(* C10  delete is not gated by the flags: on a store with readonly=true it *)
(* invokes the adapter's delete, the entry is removed and no               *)
(* ReadonlyStoreError is raised, whereas set on such a proxy is rejected.  *)
(***************************************************************************)
C10_DeleteNotGated ==
  \A i \in DOMAIN calls :
    LET c == calls[i]
    IN FlagsOf(c).readonly =>
         /\ c.op = "delete" =>
              /\ c.nDelete = 1 /\ c.exc = "none"
              /\ ~AdapterExists(data, PathOf(c))
         /\ c.op = "set" =>
              (Failed(c, "ReadonlyStoreError") /\ c.nWrite = 0 /\ data = c.pre.data)

\* A delete through a read-only store removed an entry that existed.
C10_Witness ==
  \E i \in DOMAIN calls :
    LET c == calls[i]
    IN /\ c.op = "delete" /\ FlagsOf(c).readonly /\ Succeeded(c)
       /\ AdapterExists(c.pre.data, PathOf(c))
       /\ ~AdapterExists(data, PathOf(c))

(***************************************************************************)
(* C11  child(childId, overrides) returns a node whose identifier is the   *)
(* parent's joined with childId and whose flags are the parent's with the  *)
(* overrides applied, a flag not overridden being inherited; it works on   *)
(* the same adapter.  Creating a child, and any operation through a child, *)
(* leaves the identifier and flags of the existing nodes unchanged, so a   *)
(* set through a writable parent is not rejected as read-only after a     *)
(* read-only child was created from it.                                    *)
(***************************************************************************)
C11_ChildFlags ==
  \A s \in DOMAIN stores, ci \in ChildIdentifiers, f \in PartialStoreFlags :
    child(s, ci, f).flags =
      [k \in FlagNames |-> IF k \in DOMAIN f THEN f[k] ELSE stores[s].flags[k]]
C11_SameAdapter ==
  \A i \in DOMAIN calls :
    LET c == calls[i]
    IN (c.op = "get" /\ Succeeded(c) /\ ~c.pre.isValueCached) =>
         c.result = AdapterRead(c.pre.data, PathOf(c))
C11_ParentAccepts ==
  \A i \in DOMAIN calls :
    LET c == calls[i]
    IN (c.op = "set" /\ ~FlagsOf(c).readonly) =>
         /\ c.exc # "ReadonlyStoreError"
         /\ Succeeded(c) => c.nWrite = 1
\* A step leaves the nodes there are as they were; a node it adds is the
\* child of one of them, with the merged flags.
C11_Frame ==
  /\ Len(stores') >= Len(stores)
  /\ \A s \in DOMAIN stores : stores'[s] = stores[s]
  /\ Len(stores') > Len(stores) =>
       /\ Len(stores') = Len(stores) + 1
       /\ C11_ChildFlags
       /\ \E s \in DOMAIN stores, ci \in ChildIdentifiers, f \in PartialStoreFlags :
            stores'[Len(stores')] = child(s, ci, f)
C11_ChildLeavesParent ==
  [][C11_Frame /\ C11_SameAdapter' /\ C11_ParentAccepts']_vars

\* A set through the writable root has succeeded after a read-only child
\* was created from it and a proxy of that child has loaded the root's entry.
C11_Witness ==
  \E i \in DOMAIN calls : \E q \in DOMAIN proxies :
    LET c == calls[i]
    IN /\ Len(stores) = 2 /\ ~stores[1].flags.readonly /\ stores[2].flags.readonly
       /\ stores[2].flags.validate = stores[1].flags.validate
       /\ c.op = "set" /\ proxies[c.proxy].store = 1 /\ Succeeded(c)
       /\ c.nWrite = 1 /\ Truthy(c.arg)
       /\ proxies[q].store = 2 /\ proxies[q].isValueCached
       /\ proxies[q].path = PathOf(c) /\ Truthy(proxies[q].value)

(***************************************************************************)
(* C12  A failure of the storage adapter (exists, read or write) during    *)
(* get, set or getWithSet reaches the caller as the adapter's own error,   *)
(* never as ValidationError or ReadonlyStoreError; when the load of the    *)
(* old value fails inside a validating set, the strategy's validate and    *)
(* the adapter's write are not invoked.                                    *)
(***************************************************************************)
C12_AdapterErrorUnwrapped ==
  \A i \in DOMAIN calls :
    LET c == calls[i]
    IN /\ c.failed # "none" =>
            /\ c.op \in {"get", "set", "getWithSet"}
            /\ c.exc = "AdapterError"
       /\ (c.op = "set" /\ FlagsOf(c).validate /\ c.failed \in {"exists", "read"}) =>
            (c.nValidate = 0 /\ c.nWrite = 0)

\* A validating set of a value onto a stored one has failed with the
\* adapter's error because the read of the old value failed.
C12_Witness ==
  \E i \in DOMAIN calls :
    LET c == calls[i]
    IN /\ c.op = "set" /\ FlagsOf(c).validate /\ ~FlagsOf(c).readonly
       /\ Truthy(c.arg) /\ Truthy(AdapterRead(c.pre.data, PathOf(c)))
       /\ c.failed = "read" /\ Failed(c, "AdapterError")
       /\ c.nValidate = 0 /\ c.nWrite = 0 /\ data = c.pre.data

(***************************************************************************)
(* C13  The schema-with-diffing validate, for every list of changes, fails *)
(* if and only if at least one change has criticality Breaking or          *)
(* Dangerous; the aggregate error then carries exactly one message per     *)
(* Breaking or Dangerous change, in diff order, and none for a change of   *)
(* another level.                                                          *)
(***************************************************************************)
Offending(change) == change.level \in {"BREAKING", "DANGEROUS"}
\* The positions of the offending changes among the first n changes.
OffendingUpTo(changes, n) == {j \in 1..n : Offending(changes[j])}

C13_AggregatesOffending ==
  validation.outcome \in {"thrown", "returned"} =>
    LET changes == validation.changes
        errors == validation.errors
    IN /\ validation.outcome = "thrown" <=>
            (\E j \in DOMAIN changes : Offending(changes[j]))
       /\ Len(errors) = Cardinality(OffendingUpTo(changes, Len(changes)))
       /\ \A j \in DOMAIN changes :
            Offending(changes[j]) =>
              errors[Cardinality(OffendingUpTo(changes, j))] = changes[j].message

\* The validation of a Dangerous, a NonBreaking and a Breaking change has
\* failed with the messages of the first and the third.
C13_Witness ==
  /\ validation.outcome = "thrown"
  /\ Len(validation.changes) = 3
  /\ validation.changes[1].level = "DANGEROUS"
  /\ validation.changes[2].level = "NON_BREAKING"
  /\ validation.changes[3].level = "BREAKING"
  /\ validation.changes[1].message # validation.changes[3].message
  /\ validation.errors = <<validation.changes[1].message, validation.changes[3].message>>

(***************************************************************************)
(* C14  For every string s, with backticks, '$', '${' and backslashes,     *)
(* evaluating the template literal that the raw-string codify emits for s  *)
(* yields exactly s: a string written through the filesystem adapter and   *)
(* read back equals the original.                                          *)
(***************************************************************************)
C14_StringRoundTrip ==
  fs.outcome # "none" => (fs.outcome = "value" /\ fs.loaded = fs.value)

(***************************************************************************)
(* C15  On a store with validate=true and readonly=false, set(newValue)    *)
(* first loads the old value into the cache if it is not cached yet, and   *)
(* invokes the strategy's validate exactly when both the old value and the *)
(* new value are present, falsy present values such as 0 included; when    *)
(* either is absent validate is not invoked and the set is accepted and    *)
(* written.                                                                *)
(***************************************************************************)
C15_ValidateIffBothPresent ==
  \A i \in DOMAIN calls :
    LET c == calls[i]
        both == Present(OldValue(c)) /\ Present(c.arg)
    IN (c.op = "set" /\ FlagsOf(c).validate /\ ~FlagsOf(c).readonly /\ Settled(c)) =>
         /\ proxies[c.proxy].isValueCached
         /\ c.nValidate = (IF both THEN 1 ELSE 0)
         /\ ~both =>
              /\ Succeeded(c) /\ c.nWrite = 1
              /\ Entry(data, PathOf(c)) = <<TRUE, c.arg>>

(***************************************************************************)
(* C16 (as stated)  On a store with validate=true and readonly=false, one  *)
(* getWithSet(compute) call in which the existing value and the candidate  *)
(* are both present invokes the strategy's validate twice: once in         *)
(* getWithSet itself and once more inside the set it delegates to.  Taken  *)
(* here on values that are present and not falsy.                          *)
(***************************************************************************)
GwsBothTruthy(c) ==
  /\ c.op = "getWithSet" /\ FlagsOf(c).validate /\ ~FlagsOf(c).readonly
  /\ Truthy(OldValue(c)) /\ Truthy(c.arg)
InFrame(c, frame) == \E j \in DOMAIN c.stack : c.stack[j] = frame

C16_ValidateTwice ==
  \A i \in DOMAIN calls :
    LET c == calls[i]
    IN (GwsBothTruthy(c) /\ Settled(c)) => c.nValidate = 2

(***************************************************************************)
(* C16 (amended)  On a store with validate=true and readonly=false, one    *)
(* getWithSet(compute) call in which the existing value and the candidate  *)
(* are both present and not falsy invokes compute once and the strategy's  *)
(* validate exactly once: inside the set it delegates to, never in         *)
(* getWithSet itself.                                                      *)
(***************************************************************************)
C16_ValidateOnce ==
  \A i \in DOMAIN calls :
    LET c == calls[i]
    IN GwsBothTruthy(c) =>
         /\ ~InFrame(c, "gws_dv")
         /\ c.nValidate <= 1
         /\ c.nValidate = 1 => (InFrame(c, "gws_set") \/ Settled(c))
         /\ Settled(c) => (c.nValidate = 1 /\ c.nCompute = 1)

\* Such a getWithSet has validated once, written the candidate and
\* returned it.
C16_Witness ==
  \E i \in DOMAIN calls :
    LET c == calls[i]
    IN /\ GwsBothTruthy(c) /\ Succeeded(c)
       /\ c.nValidate = 1 /\ c.nWrite = 1 /\ c.result = c.arg
       /\ c.arg # OldValue(c)

(***************************************************************************)
(* C17  Two set calls running concurrently on the same proxy of a          *)
(* validate=true, readonly=false store can both validate against the same  *)
(* old value and both succeed: neither call fails, both writes are issued, *)
(* and the final storage and cache value is that of the call that wrote    *)
(* last.  As a property of every execution: a set of such a store fails    *)
(* only with the ValidationError of its own validation, a set that did not *)
(* fail has written whatever the other calls did meanwhile, and the write  *)
(* of a call makes its value the stored and the cached one.                *)
(***************************************************************************)
ValidatingSet(c) ==
  c.op = "set" /\ FlagsOf(c).validate /\ ~FlagsOf(c).readonly

C17_NoCompareAndSwap ==
  \A i \in DOMAIN calls :
    LET c == calls[i]
    IN ValidatingSet(c) =>
         /\ c.exc \in {"none", "ValidationError"}
         /\ c.exc = "ValidationError" <=>
              (c.nValidate = 1 /\ ValidateThrows(options, c.validated, c.arg))
         /\ Succeeded(c) => c.nWrite = 1
C17_WriteWins ==
  \A i \in DOMAIN calls :
    (Len(calls') >= Len(calls) /\ calls'[i].nWrite > calls[i].nWrite) =>
      LET p == calls[i].proxy
      IN /\ Entry(data', proxies[p].path) = <<TRUE, calls[i].arg>>
         /\ proxies'[p].value = calls[i].arg
         /\ proxies'[p].isValueCached
C17_LastWriteWins == [][C17_WriteWins /\ C17_NoCompareAndSwap']_vars

\* Two sets of one proxy have validated against the same schema and have
\* both succeeded; the schema of the second is the stored and cached one,
\* although it breaks the schema of the first, which was overwritten.
C17_Witness ==
  \E i, j \in DOMAIN calls :
    LET c == calls[i]
        d == calls[j]
    IN /\ i # j /\ c.proxy = d.proxy
       /\ ValidatingSet(c) /\ ValidatingSet(d)
       /\ Succeeded(c) /\ Succeeded(d)
       /\ c.nValidate = 1 /\ d.nValidate = 1 /\ c.validated = d.validated
       /\ c.nWrite = 1 /\ d.nWrite = 1
       /\ ValidateThrows(options, c.arg, d.arg)
       /\ Entry(data, PathOf(d)) = <<TRUE, d.arg>>
       /\ proxies[d.proxy].value = d.arg

(***************************************************************************)
(* C18  The load-at-most-once guarantee does not hold under interleaving:  *)
(* when two get() calls are started on the same uninitialized proxy before *)
(* the first has completed its load, the adapter's exists and read are     *)
(* each invoked twice for that key.  No in-flight load is shared: every    *)
(* get started while the proxy has not cached invokes exists itself, and   *)
(* read itself if the key existed, whatever calls are pending.             *)
(***************************************************************************)
C18_NoSharedLoad ==
  \A i \in DOMAIN calls :
    LET c == calls[i]
    IN (c.op = "get" /\ ~c.pre.isValueCached) =>
         /\ c.nExists = 1
         /\ c.nRead <= 1
         /\ Settled(c) =>
              c.nRead = (IF AdapterExists(c.pre.data, PathOf(c)) THEN 1 ELSE 0)

\* Two gets of one proxy that had not loaded have each invoked exists and
\* read and have returned the stored value.
C18_Witness ==
  \E i, j \in DOMAIN calls :
    LET c == calls[i]
        d == calls[j]
    IN /\ i # j /\ c.proxy = d.proxy
       /\ c.op = "get" /\ d.op = "get"
       /\ ~c.pre.isValueCached /\ ~d.pre.isValueCached
       /\ Succeeded(c) /\ Succeeded(d)
       /\ c.nExists = 1 /\ d.nExists = 1 /\ c.nRead = 1 /\ d.nRead = 1
       /\ Truthy(c.result) /\ d.result = c.result

(***************************************************************************)
(* C19  Cache/storage coherence for sequential use: for one proxy over the *)
(* in-memory adapter whose key is touched by no other proxy and no direct  *)
(* adapter call, after every completed get, set or getWithSet (successful  *)
(* or failed, under any flags, in any order, delete excluded), if the      *)
(* proxy's slot is cached then get() on it returns the value that get() on *)
(* a freshly created proxy for the same key returns: the stored one.       *)
(***************************************************************************)
C19_Coherent ==
  /\ \A p \in DOMAIN proxies :
       ((\A i \in DOMAIN calls : Settled(calls[i])) /\ proxies[p].isValueCached) =>
         proxies[p].value = AdapterRead(data, proxies[p].path)
  /\ \A i \in DOMAIN calls :
       LET c == calls[i]
       IN (c.op = "get" /\ Settled(c)) =>
            /\ c.exc = "none"
            /\ c.result = AdapterRead(c.pre.data, PathOf(c))
            /\ c.pre.isValueCached => (c.result = c.pre.value /\ c.nExists = 0)

\* A get of the cached proxy of a validating store has returned the stored
\* value, which a set has put in the place of the one the adapter held
\* at first.
C19_Witness ==
  \E i \in DOMAIN calls :
    LET c == calls[i]
    IN /\ c.op = "get" /\ Succeeded(c) /\ c.pre.isValueCached
       /\ FlagsOf(c).validate /\ ~FlagsOf(c).readonly
       /\ Truthy(c.result) /\ c.nExists = 0
       /\ Entry(data, PathOf(c)) = <<TRUE, c.result>>
       /\ c.result = JsSchema({"f", "g"})

(***************************************************************************)
(* C20  On a store with readonly=true and validate=false where no value    *)
(* exists for the key, getWithSet(compute) invokes compute, discards the   *)
(* candidate (no write, the cached value stays absent), raises no          *)
(* ReadonlyStoreError and returns the absent value, not the computed one;  *)
(* getWithSet never raises ReadonlyStoreError, whatever the flags.         *)
(***************************************************************************)
C20_ReadonlyGwsDiscards ==
  \A i \in DOMAIN calls :
    LET c == calls[i]
    IN c.op = "getWithSet" =>
         /\ c.exc # "ReadonlyStoreError"
         /\ (FlagsOf(c).readonly /\ ~FlagsOf(c).validate /\ ~Present(OldValue(c))) =>
              /\ c.nWrite = 0 /\ c.nDelete = 0 /\ data = c.pre.data
              /\ proxies[c.proxy].value = JsUndefined
              /\ Settled(c) =>
                   (c.exc = "none" /\ c.nCompute = 1 /\ c.result = JsUndefined)

\* Such a getWithSet has computed a candidate and returned undefined.
C20_Witness ==
  \E i \in DOMAIN calls :
    LET c == calls[i]
    IN /\ c.op = "getWithSet" /\ Succeeded(c)
       /\ FlagsOf(c).readonly /\ ~FlagsOf(c).validate /\ ~Present(OldValue(c))
       /\ Truthy(c.arg) /\ c.nCompute = 1 /\ c.nWrite = 0
       /\ c.result = JsUndefined
       /\ proxies[c.proxy].isValueCached /\ proxies[c.proxy].value = JsUndefined

====
